---- MODULE Spec2Model ----
(***************************************************************************)
(* Model of the optimal-stopping simulator (stoppingGame.ts, stored in     *)
(* src/seeds/src/getCategoryLinks.ts lines 20-146): the threshold solver,   *)
(* the per-worker simulation loop, the work split of the main thread and   *)
(* the message-driven aggregation.                                         *)
(*                                                                         *)
(* JavaScript numbers are IEEE-754 binary64.  The model computes with them *)
(* bit-exactly for the non-negative finite values the program produces: a  *)
(* number is m * 2^e with m a natural number of at most 53 bits, held as a *)
(* little-endian sequence of 15-bit limbs, and every operation rounds to   *)
(* nearest, ties to even, with gradual underflow below 2^-1022.            *)
(***************************************************************************)
EXTENDS Integers, Naturals, Sequences, FiniteSets, TLC

\* ------------------------------------------------------------------------
\* Natural numbers of arbitrary size (limbs base 2^15, least significant
\* first, no leading zero limb; <<>> is zero).
\* ------------------------------------------------------------------------
LimbBits == 14 + 1
Base == 2^LimbBits

Min(a, b) == IF a <= b THEN a ELSE b
Max(a, b) == IF a >= b THEN a ELSE b

RECURSIVE BigNorm(_)
BigNorm(a) ==
  IF a = <<>> THEN <<>>
  ELSE IF a[Len(a)] = 0 THEN BigNorm(SubSeq(a, 1, Len(a) - 1))
  ELSE a

RECURSIVE BigFromInt(_)
BigFromInt(n) == IF n = 0 THEN <<>> ELSE <<n % Base>> \o BigFromInt(n \div Base)

RECURSIVE BigAddC(_, _, _)
BigAddC(a, b, c) ==
  IF a = <<>> /\ b = <<>> THEN (IF c = 0 THEN <<>> ELSE <<c>>)
  ELSE LET x == IF a = <<>> THEN 0 ELSE Head(a)
           y == IF b = <<>> THEN 0 ELSE Head(b)
           s == x + y + c
       IN <<s % Base>> \o BigAddC(IF a = <<>> THEN <<>> ELSE Tail(a),
                                  IF b = <<>> THEN <<>> ELSE Tail(b),
                                  s \div Base)
BigAdd(a, b) == BigAddC(a, b, 0)

RECURSIVE BigMulSmallC(_, _, _)
BigMulSmallC(a, d, c) ==
  IF a = <<>> THEN (IF c = 0 THEN <<>> ELSE <<c>>)
  ELSE LET s == Head(a) * d + c
       IN <<s % Base>> \o BigMulSmallC(Tail(a), d, s \div Base)
BigMulSmall(a, d) == IF d = 0 THEN <<>> ELSE BigMulSmallC(a, d, 0)

RECURSIVE BigMul(_, _)
BigMul(a, b) ==
  IF a = <<>> \/ b = <<>> THEN <<>>
  ELSE BigAdd(BigMulSmall(a, Head(b)),
              LET r == BigMul(a, Tail(b)) IN IF r = <<>> THEN <<>> ELSE <<0>> \o r)

\* quotient of a by the small number d (0 < d < Base), rem the running remainder
RECURSIVE BigDivSmallR(_, _, _)
BigDivSmallR(a, d, rem) ==
  IF a = <<>> THEN [q |-> <<>>, r |-> rem]
  ELSE LET cur == rem * Base + a[Len(a)]
           rest == BigDivSmallR(SubSeq(a, 1, Len(a) - 1), d, cur % d)
       IN [q |-> rest.q \o <<cur \div d>>, r |-> rest.r]
BigDivSmall(a, d) ==
  LET x == BigDivSmallR(a, d, 0) IN [q |-> BigNorm(x.q), r |-> x.r]

RECURSIVE BigCmpFrom(_, _, _)
BigCmpFrom(a, b, k) ==
  IF k = 0 THEN 0
  ELSE IF a[k] < b[k] THEN -1
  ELSE IF a[k] > b[k] THEN 1
  ELSE BigCmpFrom(a, b, k - 1)
BigCmp(a, b) ==
  IF Len(a) < Len(b) THEN -1
  ELSE IF Len(a) > Len(b) THEN 1
  ELSE BigCmpFrom(a, b, Len(a))

RECURSIVE SmallBitLen(_)
SmallBitLen(n) == IF n = 0 THEN 0 ELSE 1 + SmallBitLen(n \div 2)
BitLen(a) == IF a = <<>> THEN 0 ELSE LimbBits * (Len(a) - 1) + SmallBitLen(a[Len(a)])

Bit(a, n) ==
  LET k == (n \div LimbBits) + 1
  IN IF k > Len(a) THEN 0 ELSE (a[k] \div 2^(n % LimbBits)) % 2

ShiftLeft(a, n) ==
  IF a = <<>> THEN <<>>
  ELSE [k \in 1..(n \div LimbBits) |-> 0] \o BigMulSmall(a, 2^(n % LimbBits))

ShiftRight(a, n) ==
  LET k == n \div LimbBits
  IN IF k >= Len(a) THEN <<>>
     ELSE BigDivSmall(SubSeq(a, k + 1, Len(a)), 2^(n % LimbBits)).q

\* ------------------------------------------------------------------------
\* binary64 values >= 0: [m, e] stands for m * 2^e.  Canonical form: zero is
\* [<<>>, 0]; a normal number has a 53-bit m; a subnormal has e = MinExp.
\* ------------------------------------------------------------------------
MantBits == 53
MinExp == -1074

FZero == [m |-> <<>>, e |-> 0]
IsZero(x) == x.m = <<>>

\* the binary64 nearest to M * 2^E (ties to even)
Round(M, E) ==
  IF M = <<>> THEN FZero
  ELSE LET e1 == Max(E + BitLen(M) - MantBits, MinExp)
       IN IF e1 <= E THEN [m |-> ShiftLeft(M, E - e1), e |-> e1]
          ELSE LET s == e1 - E
                   q == ShiftRight(M, s)
                   half == Bit(M, s - 1)
                   sticky == \E j \in 0..(s - 2) : Bit(M, j) = 1
                   up == half = 1 /\ (sticky \/ Bit(q, 0) = 1)
                   r == IF up THEN BigAdd(q, <<1>>) ELSE q
               IN IF r = <<>> THEN FZero
                  ELSE IF BitLen(r) > MantBits
                  THEN [m |-> ShiftRight(r, 1), e |-> e1 + 1]
                  ELSE [m |-> r, e |-> e1]

FMul(x, y) == Round(BigMul(x.m, y.m), x.e + y.e)

FAdd(x, y) ==
  IF IsZero(x) THEN y
  ELSE IF IsZero(y) THEN x
  ELSE LET e0 == Min(x.e, y.e)
       IN Round(BigAdd(ShiftLeft(x.m, x.e - e0), ShiftLeft(y.m, y.e - e0)), e0)

\* x >= y on canonical values
FGe(x, y) ==
  IF IsZero(y) THEN TRUE
  ELSE IF IsZero(x) THEN FALSE
  ELSE IF x.e # y.e THEN x.e > y.e
  ELSE BigCmp(x.m, y.m) >= 0

FLt(x, y) == ~FGe(x, y)

\* the number literal n * 2^e
Num(n, e) == Round(BigFromInt(n), e)

\* Number literals of the source
Half == Num(1, -1)

\* ------------------------------------------------------------------------
\* Bounds of the model and the inputs drawn
\* ------------------------------------------------------------------------
MaxSims == 2
MaxWorkers == 3
MaxPressesArg == 10

\* results of Math.random(): multiples of 2^-53 in [0, 1)
RandomValues == {FZero, Num(1, -1), Num(7, -3)}

\* ------------------------------------------------------------------------
\* Program constants
\* ------------------------------------------------------------------------
MAX_PRESSES == 10
TOP_PRIZE == Num(100000, 0)

\* prize values a worker may be handed: the program's, 1, the smallest
\* normal number 2^-1022 and the two smallest positive numbers
PrizeValues == {TOP_PRIZE, Num(1, 0), Num(1, MinExp + MantBits - 1), Num(1, MinExp), Num(2, MinExp)}

\* ------------------------------------------------------------------------
\* Common helpers: computeF, thresholds
\* ------------------------------------------------------------------------
\* (mutant) f[j - 1] * 2 in place of f[j - 1] ** 2
SquareAsDouble(x) == FAdd(x, x)

\* f[j - 1] ** 2
Square(x) == FMul(x, x)

\* (mutant) 0.5 + f[j - 1] ** 2: the factor 0.5 of the square is lost
nextFNoHalf(prev) == FAdd(Half, Square(prev))

\* 0.5 + 0.5 * f[j - 1] ** 2
nextF(prev) == FAdd(Half, FMul(Half, Square(prev)))

\* the loop of computeF; f(j) is held at position j + 1
RECURSIVE computeFLoop(_, _, _)
computeFLoop(f, j, maxPresses) ==
  IF j <= maxPresses
  THEN computeFLoop(Append(f, nextF(f[j])), j + 1, maxPresses)
  ELSE f

computeF(maxPresses) == computeFLoop(<<FZero, Half>>, 2, maxPresses)

\* the loop of thresholds: t.push(f[k - 1] * prize) for k = maxPresses .. 1
RECURSIVE thresholdsLoop(_, _, _, _)
thresholdsLoop(f, t, k, prize) ==
  IF k >= 1
  THEN thresholdsLoop(f, Append(t, FMul(f[k], prize)), k - 1, prize)
  ELSE t

\* (mutant) t.push(f[k] * prize): the entry of k + 1 presses remaining
thresholdsOffByOne(maxPresses, prize) ==
  [n \in 1..maxPresses |-> FMul(computeF(maxPresses)[maxPresses - n + 2], prize)]
\* (mutant) for k = 1 .. maxPresses: the table comes out in ascending order
thresholdsAscending(maxPresses, prize) ==
  [n \in 1..maxPresses |-> FMul(computeF(maxPresses)[n], prize)]

thresholds(maxPresses, prize) == thresholdsLoop(computeF(maxPresses), <<>>, maxPresses, prize)

\* const draw = Math.random() * prize: the values it can take
randomDraws(prize) == {FMul(r, prize) : r \in RandomValues}

\* thresholds and randomDraws tabulated once for the arguments the model uses
\* (evaluation device: TableFor(a, b) = thresholds(a, b), Draws(p) = randomDraws(p))
ThresholdTables ==
  {<<mp, p, thresholds(mp, p)>> : mp \in 0..Max(MaxPressesArg, MAX_PRESSES), p \in PrizeValues}
TableFor(maxPresses, prize) ==
  (CHOOSE t \in ThresholdTables : t[1] = maxPresses /\ t[2] = prize)[3]
DrawTables == {<<p, randomDraws(p)>> : p \in PrizeValues}
Draws(prize) == (CHOOSE d \in DrawTables : d[1] = prize)[2]

\* ------------------------------------------------------------------------
\* State
\* ------------------------------------------------------------------------
VARIABLES
  totalSims,      \* main: Number.parseInt(process.argv[2] ...)
  numWorkers,     \* main: Number.parseInt(process.argv[3] ...)
  mainPc,         \* main: "start", "launching", "running", "done"; "none": no main thread
  simsPerWorker,  \* main
  extra,          \* main
  th,             \* main: thresholds() for the final report
  finished,       \* main
  grandTotal,     \* main
  i,              \* main: index of the launch loop
  reports,        \* the final reports printed so far
  workers,        \* worker index -> state of that worker thread
  channel,        \* worker index -> messages posted to the main thread, not yet handled
  merged,         \* history: the messages handled by the main thread, in order
  parser          \* the state of one ProductParser.processLinks call

vars == <<totalSims, numWorkers, mainPc, simsPerWorker, extra, th, finished,
          grandTotal, i, reports, workers, channel, merged, parser>>

gameVars == <<totalSims, numWorkers, mainPc, simsPerWorker, extra, th, finished,
              grandTotal, i, reports, workers, channel, merged>>

mainVars == <<totalSims, numWorkers, mainPc, simsPerWorker, extra, th, finished,
              grandTotal, i, reports, merged>>

\* (mutant) a worker with no trials to run is not started: it never posts
NewWorkerSkipIdle(sims, maxPresses, prize) ==
  [pc |-> IF sims = 0 THEN "exited" ELSE "init",
   sims |-> sims, maxPresses |-> maxPresses, prize |-> prize,
   th |-> <<>>, s |-> 0, press |-> 1, winnings |-> FZero,
   last |-> [press |-> 0, draw |-> FZero, stop |-> FALSE],
   accepts |-> 0]

\* (mutant) workerData carries maxPresses - 1: the worker plays a shorter game
NewWorkerShortGame(sims, maxPresses, prize) ==
  [pc |-> "init", sims |-> sims, maxPresses |-> maxPresses - 1, prize |-> prize,
   th |-> <<>>, s |-> 0, press |-> 1, winnings |-> FZero,
   last |-> [press |-> 0, draw |-> FZero, stop |-> FALSE],
   accepts |-> 0]

\* a worker thread created with workerData {sims, maxPresses, prize}
NewWorker(sims, maxPresses, prize) ==
  [pc |-> "init", sims |-> sims, maxPresses |-> maxPresses, prize |-> prize,
   th |-> <<>>, s |-> 0, press |-> 1, winnings |-> FZero,
   last |-> [press |-> 0, draw |-> FZero, stop |-> FALSE],
   accepts |-> 0]

\* ------------------------------------------------------------------------
\* Worker code
\* ------------------------------------------------------------------------
\* the worker reads workerData, computes its table and enters simulate
WStart(w) ==
  /\ workers[w].pc = "init"
  /\ workers' = [workers EXCEPT ![w].th = TableFor(workers[w].maxPresses, workers[w].prize),
                                ![w].winnings = FZero,
                                ![w].s = 0,
                                ![w].press = 1,
                                ![w].pc = "sim"]
  /\ UNCHANGED <<mainVars, channel, parser>>

\* (mutant) idx = maxPresses - press: the table is read from its other end
stopRuleUnreversed(draw, tab, press, maxPresses) ==
  LET idx == maxPresses - press
  IN (idx + 1 \in DOMAIN tab /\ FGe(draw, tab[idx + 1])) \/ press = maxPresses

\* const stop = draw >= th[idx] || press === maxPresses   (th[idx] may be undefined)
stopRule(draw, tab, press, maxPresses) ==
  LET idx == press - 1
  IN (idx + 1 \in DOMAIN tab /\ FGe(draw, tab[idx + 1])) \/ press = maxPresses

\* (mutant) press < maxPresses: the last press is never played
pressLoopCondStrict(press, maxPresses) == press < maxPresses

\* press <= maxPresses
pressLoopCond(press, maxPresses) == press <= maxPresses

\* winnings += draw
addDraw(winnings, draw) == FAdd(winnings, draw)

\* the values winnings can take after at most n trials with the given prize
RECURSIVE WinningsAfter(_, _)
WinningsAfter(prize, n) ==
  IF n = 0 THEN {FZero}
  ELSE LET before == WinningsAfter(prize, n - 1)
       IN before \cup {addDraw(a, d) : a \in before, d \in Draws(prize)}

\* addDraw tabulated once for the arguments the model uses
\* (evaluation device: AddDrawFor(p, a, d) = addDraw(a, d))
AddDrawTable ==
  UNION {{<<p, a, d, addDraw(a, d)>> : a \in WinningsAfter(p, MaxSims), d \in Draws(p)} :
           p \in PrizeValues}
AddDrawFor(prize, winnings, draw) ==
  (CHOOSE t \in {u \in AddDrawTable : u[1] = prize} :
     t[2] = winnings /\ t[3] = draw)[4]

\* one iteration of the loops of simulate
WStep(w) ==
  LET me == workers[w] IN
  /\ me.pc = "sim"
  /\ me.s < me.sims
  /\ IF pressLoopCond(me.press, me.maxPresses)
     THEN \E draw \in Draws(me.prize) :
            LET stop == stopRule(draw, me.th, me.press, me.maxPresses)
            IN workers' =
                 IF stop
                 THEN [workers EXCEPT ![w].winnings = AddDrawFor(me.prize, me.winnings, draw),
                                      ![w].accepts = me.accepts + 1,
                                      ![w].s = me.s + 1,
                                      ![w].press = 1,
                                      ![w].last = [press |-> me.press, draw |-> draw, stop |-> TRUE]]
                 ELSE [workers EXCEPT ![w].press = me.press + 1,
                                      ![w].last = [press |-> me.press, draw |-> draw, stop |-> FALSE]]
     ELSE workers' = [workers EXCEPT ![w].s = me.s + 1, ![w].press = 1]
  /\ UNCHANGED <<mainVars, channel, parser>>

\* (mutant) the worker also adds its subtotal to the main thread's total itself
WPostShared(w) ==
  LET me == workers[w] IN
  /\ me.pc = "sim"
  /\ ~(me.s < me.sims)
  /\ grandTotal' = FAdd(grandTotal, me.winnings)
  /\ channel' = [channel EXCEPT ![w] = Append(channel[w], me.winnings)]
  /\ workers' = [workers EXCEPT ![w].pc = "exited"]
  /\ UNCHANGED <<totalSims, numWorkers, mainPc, simsPerWorker, extra, th, finished,
                 i, reports, merged, parser>>

\* simulate returns; parentPort.postMessage(subtotal); the worker exits
WPost(w) ==
  LET me == workers[w] IN
  /\ me.pc = "sim"
  /\ ~(me.s < me.sims)
  /\ channel' = [channel EXCEPT ![w] = Append(channel[w], me.winnings)]
  /\ workers' = [workers EXCEPT ![w].pc = "exited"]
  /\ UNCHANGED <<mainVars, parser>>

\* ------------------------------------------------------------------------
\* Main thread
\* ------------------------------------------------------------------------
\* Math.floor(a / b) and a % b for integers a and b; a division by 0 gives
\* NaN or an infinity, the remainder takes the sign of a
JsFloorDiv(a, b) ==
  IF b = 0 THEN (IF a = 0 THEN "NaN" ELSE IF a > 0 THEN "Infinity" ELSE "-Infinity")
  ELSE IF b > 0 THEN a \div b
  ELSE (-a) \div (-b)
JsRem(a, b) ==
  IF b = 0 THEN "NaN"
  ELSE LET n == IF b < 0 THEN -b ELSE b
       IN IF a >= 0 THEN a % n ELSE -((-a) % n)

\* (mutant) the remainder is dropped
workerSimsNoExtra(idx, perWorker, rest) == perWorker
\* (mutant) the remainder goes to the second worker
workerSimsSecond(idx, perWorker, rest) == perWorker + (IF idx = 1 THEN rest ELSE 0)

\* const sims = simsPerWorker + (i === 0 ? extra : 0)
workerSims(idx, perWorker, rest) == perWorker + (IF idx = 0 THEN rest ELSE 0)

\* grandTotal / totalSims
NaN == [kind |-> "NaN", neg |-> FALSE, abs |-> FZero]
FDivInt(x, n) ==
  IF n = 0 THEN (IF IsZero(x) THEN NaN ELSE [kind |-> "Infinity", neg |-> FALSE, abs |-> FZero])
  ELSE LET a == IF n < 0 THEN -n ELSE n
           d == BigDivSmall(ShiftLeft(x.m, 5 * LimbBits), a)
           q == BigAdd(ShiftLeft(d.q, 1), IF d.r = 0 THEN <<>> ELSE <<1>>)
       IN [kind |-> "number", neg |-> n < 0, abs |-> Round(q, x.e - 5 * LimbBits - 1)]

\* lines 112-119
MainDistribute ==
  /\ mainPc = "start"
  /\ simsPerWorker' = JsFloorDiv(totalSims, numWorkers)
  /\ extra' = JsRem(totalSims, numWorkers)
  /\ th' = TableFor(MAX_PRESSES, TOP_PRIZE)
  /\ finished' = 0
  /\ grandTotal' = FZero
  /\ i' = 0
  /\ mainPc' = "launching"
  /\ UNCHANGED <<totalSims, numWorkers, reports, workers, channel, merged, parser>>

\* one iteration of the launch loop, or its end: the script is over and the
\* event loop takes the messages
MainLaunch ==
  /\ mainPc = "launching"
  /\ IF i < numWorkers
     THEN /\ workers' = workers @@ (i :> NewWorker(workerSims(i, simsPerWorker, extra),
                                                   MAX_PRESSES, TOP_PRIZE))
          /\ channel' = channel @@ (i :> <<>>)
          /\ i' = i + 1
          /\ UNCHANGED mainPc
     ELSE /\ mainPc' = "running"
          /\ UNCHANGED <<workers, channel, i>>
  /\ UNCHANGED <<totalSims, numWorkers, simsPerWorker, extra, th, finished,
                 grandTotal, reports, merged, parser>>

\* (mutant) grandTotal = sub
mergeOverwrite(total, sub) == sub

\* (mutant) the subtotal is added twice
mergeTwice(total, sub) == FAdd(FAdd(total, sub), sub)

\* grandTotal += sub
mergeSub(total, sub) == FAdd(total, sub)

\* the values grandTotal can take after at most n messages
RECURSIVE TotalsAfter(_)
TotalsAfter(n) ==
  IF n = 0 THEN {FZero}
  ELSE LET before == TotalsAfter(n - 1)
       IN before \cup {mergeSub(a, b) : a \in before, b \in WinningsAfter(TOP_PRIZE, MaxSims)}

\* mergeSub and the mean tabulated once for the arguments the model uses
\* (evaluation device: MergeFor(a, b) = mergeSub(a, b), MeanFor(a, n) = FDivInt(a, n))
MergeTable ==
  {<<a, b, mergeSub(a, b)>> :
     a \in TotalsAfter(MaxWorkers), b \in WinningsAfter(TOP_PRIZE, MaxSims)}
MergeFor(total, sub) ==
  (CHOOSE t \in MergeTable : t[1] = total /\ t[2] = sub)[3]
MeanTable ==
  {<<a, n, FDivInt(a, n)>> : a \in TotalsAfter(MaxWorkers), n \in (-MaxSims)..MaxSims}
MeanFor(total, n) ==
  (CHOOSE t \in MeanTable : t[1] = total /\ t[2] = n)[3]

\* (mutant) finished++ === numWorkers: the old counter is compared
allFinishedPostIncrement(count, target) == count - 1 = target
\* (mutant) the report is due one message early
allFinishedEarly(count, target) == count = target - 1

\* if (++finished === numWorkers): count is the incremented counter
allFinished(count, target) == count = target

\* the 'error' event of a worker that died of an uncaught error
ErrorEvent == [kind |-> "error"]
IsErrorEvent(msg) == "kind" \in DOMAIN msg

\* the "message" handler of worker w
OnMessage(w) ==
  /\ mainPc \in {"running", "done"}
  /\ channel[w] # <<>>
  /\ ~IsErrorEvent(Head(channel[w]))
  /\ LET sub == Head(channel[w])
         total == MergeFor(grandTotal, sub)
     IN /\ grandTotal' = total
        /\ finished' = finished + 1
        /\ merged' = Append(merged, [from |-> w, sub |-> sub])
        /\ channel' = [channel EXCEPT ![w] = Tail(channel[w])]
        /\ IF allFinished(finished + 1, numWorkers)
           THEN /\ reports' = Append(reports, [thresholds |-> th,
                                               totalSims |-> totalSims,
                                               numWorkers |-> numWorkers,
                                               mean |-> MeanFor(total, totalSims)])
                /\ mainPc' = "done"
           ELSE UNCHANGED <<reports, mainPc>>
  /\ UNCHANGED <<totalSims, numWorkers, simsPerWorker, extra, th, i, workers, parser>>

\* a worker thread ends abnormally before postMessage: either it just exits
\* (only 'exit' is emitted) or the runtime emits 'error' on its Worker object
WCrash(w) ==
  /\ workers[w].pc \in {"init", "sim"}
  /\ workers' = [workers EXCEPT ![w].pc = "crashed"]
  /\ \E how \in {"exit", "error"} :
       channel' = IF how = "error"
                  THEN [channel EXCEPT ![w] = Append(channel[w], ErrorEvent)]
                  ELSE channel
  /\ UNCHANGED <<mainVars, parser>>

\* the Worker object has a "message" listener only: an 'error' event is
\* thrown in the main thread, which dies of the uncaught exception
OnError(w) ==
  /\ mainPc \in {"running", "done"}
  /\ channel[w] # <<>>
  /\ IsErrorEvent(Head(channel[w]))
  /\ mainPc' = "failed"
  /\ channel' = [channel EXCEPT ![w] = Tail(channel[w])]
  /\ UNCHANGED <<totalSims, numWorkers, simsPerWorker, extra, th, finished,
                 grandTotal, i, reports, workers, merged, parser>>

\* ------------------------------------------------------------------------
\* ProductParser.processLinks
\* ------------------------------------------------------------------------
\* the number of links handed to processLinks is at most MaxLinks
MaxLinks == 6

\* const limit = pLimit(5): at most five tasks run at a time
ConcurrencyLimit == 5

\* no processLinks call in this run
NoParser == [pc |-> "none"]

\* what parseProduct does with one link: it returns a product, or it throws
\* (the fetch fails, the page has no product name, the page has no SKU)
ParseOutcomes == {"product", "fetch failed", "No product name found", "No SKU found"}

\* (mutant) the task has no catch block: a failed parse rejects the task
taskResultNoCatch(link, outcome) ==
  IF outcome = "product"
  THEN [status |-> "fulfilled", value |-> [link |-> link, name |-> "name"]]
  ELSE [status |-> "thrown", reason |-> outcome]

\* try { return { status: "fulfilled", value: product, link } }
\* catch (reason) { return { status: "rejected", reason, link } }
taskResult(link, outcome) ==
  IF outcome = "product"
  THEN [status |-> "fulfilled", value |-> [link |-> link, name |-> "name"]]
  ELSE [status |-> "rejected", reason |-> outcome]

\* the tasks that pLimit is running now
ActiveTasks == {k \in 1..parser.links : parser.tasks[k].status = "running"}

\* the tasks whose promise has settled
SettledTasks == {k \in 1..parser.links : parser.tasks[k].status \notin {"queued", "running"}}

\* insertProduct: a product without a name is skipped, any other is written
insertProduct(rows, p) ==
  IF p.name = "" THEN rows ELSE Append(rows, p.link)

\* for (const res of results) { fulfilled: insertProduct, ok++; else fail++ }
RECURSIVE countResults(_, _, _)
countResults(results, k, acc) ==
  IF k > Len(results) THEN acc
  ELSE countResults(results, k + 1,
         IF results[k].status = "fulfilled"
         THEN [acc EXCEPT !.inserted = insertProduct(acc.inserted, results[k].value),
                          !.ok = acc.ok + 1]
         ELSE [acc EXCEPT !.fail = acc.fail + 1])

\* processLinks up to its await: the bar starts at 0 of links.length and
\* every link is handed to the limiter
ProcessLinks ==
  /\ parser.pc = "start"
  /\ parser' = [pc |-> "awaiting",
                links |-> parser.links,
                tasks |-> [k \in 1..parser.links |-> [status |-> "queued"]],
                bar |-> 0,
                increments |-> [k \in 1..parser.links |-> 0],
                settles |-> [k \in 1..parser.links |-> 0],
                inserted |-> <<>>, ok |-> 0, fail |-> 0]
  /\ UNCHANGED gameVars

\* the limiter starts the oldest queued task when fewer than five are running
TaskStart(k) ==
  /\ parser.pc \in {"awaiting", "failed"}
  /\ parser.tasks[k].status = "queued"
  /\ \A j \in 1..(k - 1) : parser.tasks[j].status # "queued"
  /\ Cardinality(ActiveTasks) < ConcurrencyLimit
  /\ parser' = [parser EXCEPT !.tasks[k] = [status |-> "running"]]
  /\ UNCHANGED gameVars

\* await this.parseProduct(l) comes back: the task returns its result and, in
\* finally, increments the bar
TaskSettle(k) ==
  /\ parser.pc \in {"awaiting", "failed"}
  /\ parser.tasks[k].status = "running"
  /\ \E outcome \in ParseOutcomes :
       parser' = [parser EXCEPT !.tasks[k] = taskResult(k, outcome),
                                !.settles[k] = @ + 1,
                                !.increments[k] = @ + 1,
                                !.bar = @ + 1]
  /\ UNCHANGED gameVars

\* await Promise.all(tasks) comes back: it throws as soon as a task has
\* rejected; once every task is fulfilled the bar stops, the results are
\* inserted and counted and the summary is printed
AllSettled ==
  /\ parser.pc = "awaiting"
  /\ IF \E k \in 1..parser.links : parser.tasks[k].status = "thrown"
     THEN parser' = [parser EXCEPT !.pc = "failed"]
     ELSE /\ SettledTasks = 1..parser.links
          /\ LET counts == countResults(parser.tasks, 1,
                             [inserted |-> <<>>, ok |-> 0, fail |-> 0])
             IN parser' = [parser EXCEPT !.pc = "done",
                                         !.inserted = counts.inserted,
                                         !.ok = counts.ok,
                                         !.fail = counts.fail]
  /\ UNCHANGED gameVars

\* ------------------------------------------------------------------------
\* Specifications
\* ------------------------------------------------------------------------
\* a whole run: bun run stoppingGame.ts sims threads
Init ==
  /\ totalSims \in 0..MaxSims
  /\ numWorkers \in 1..MaxWorkers
  /\ mainPc = "start"
  /\ simsPerWorker = 0
  /\ extra = 0
  /\ th = <<>>
  /\ finished = 0
  /\ grandTotal = FZero
  /\ i = 0
  /\ reports = <<>>
  /\ workers = <<>>
  /\ channel = <<>>
  /\ merged = <<>>
  /\ parser = NoParser

Next ==
  \/ MainDistribute
  \/ MainLaunch
  \/ \E w \in DOMAIN workers : OnMessage(w)
  \/ \E w \in DOMAIN workers : WStart(w)
  \/ \E w \in DOMAIN workers : WStep(w)
  \/ \E w \in DOMAIN workers : WPost(w)

Spec == Init /\ [][Next]_vars

\* a whole run under fair scheduling: the main script runs to its end, every
\* worker thread keeps being scheduled until it has posted, and the event loop
\* delivers every message posted
WorkerRuns(w) == w \in DOMAIN workers /\ (WStart(w) \/ WStep(w) \/ WPost(w))
Delivered(w) == w \in DOMAIN workers /\ OnMessage(w)
Fairness ==
  /\ WF_vars(MainDistribute)
  /\ WF_vars(MainLaunch)
  /\ \A w \in 0..(MaxWorkers - 1) : WF_vars(WorkerRuns(w)) /\ WF_vars(Delivered(w))

SpecLive == Init /\ [][Next]_vars /\ Fairness

\* a whole run on any integers parsed from the command line
InitArgs ==
  /\ totalSims \in (-MaxSims)..MaxSims
  /\ numWorkers \in (-1)..MaxWorkers
  /\ mainPc = "start"
  /\ simsPerWorker = 0
  /\ extra = 0
  /\ th = <<>>
  /\ finished = 0
  /\ grandTotal = FZero
  /\ i = 0
  /\ reports = <<>>
  /\ workers = <<>>
  /\ channel = <<>>
  /\ merged = <<>>
  /\ parser = NoParser

SpecArgs == InitArgs /\ [][Next]_vars

\* a whole run in which worker threads may end abnormally
NextCrash ==
  \/ Next
  \/ \E w \in DOMAIN workers : WCrash(w)
  \/ \E w \in DOMAIN workers : OnError(w)

SpecCrash == Init /\ [][NextCrash]_vars

\* one worker thread on its own, handed any workerData
InitWorker ==
  /\ totalSims = 0
  /\ numWorkers = 0
  /\ mainPc = "none"
  /\ simsPerWorker = 0
  /\ extra = 0
  /\ th = <<>>
  /\ finished = 0
  /\ grandTotal = FZero
  /\ i = 0
  /\ reports = <<>>
  /\ \E sims \in 0..MaxSims, maxPresses \in 0..MaxPressesArg, prize \in PrizeValues :
       workers = (0 :> NewWorker(sims, maxPresses, prize))
  /\ channel = (0 :> <<>>)
  /\ merged = <<>>
  /\ parser = NoParser

NextWorker ==
  \/ \E w \in DOMAIN workers : WStart(w)
  \/ \E w \in DOMAIN workers : WStep(w)
  \/ \E w \in DOMAIN workers : WPost(w)

SpecWorker == InitWorker /\ [][NextWorker]_vars

\* one processLinks call on any number of links
InitLinks ==
  /\ totalSims = 0
  /\ numWorkers = 0
  /\ mainPc = "none"
  /\ simsPerWorker = 0
  /\ extra = 0
  /\ th = <<>>
  /\ finished = 0
  /\ grandTotal = FZero
  /\ i = 0
  /\ reports = <<>>
  /\ workers = <<>>
  /\ channel = <<>>
  /\ merged = <<>>
  /\ \E n \in 0..MaxLinks : parser = [pc |-> "start", links |-> n]

NextLinks ==
  \/ ProcessLinks
  \/ \E k \in 1..parser.links : TaskStart(k)
  \/ \E k \in 1..parser.links : TaskSettle(k)
  \/ AllSettled

SpecLinks == InitLinks /\ [][NextLinks]_vars

\* ------------------------------------------------------------------------
\* Properties
\* ------------------------------------------------------------------------
\* the launch loop is over: every worker has been created
Launched == mainPc \in {"running", "done"}

\* sum of the trial counts handed to workers 0 .. n - 1
RECURSIVE SimsHandedOut(_)
SimsHandedOut(n) == IF n = 0 THEN 0 ELSE workers[n - 1].sims + SimsHandedOut(n - 1)

\* C1: for totalTrials >= 0 and workerCount >= 1 the trial counts handed to
\* the workers are workerCount non-negative integers summing to totalTrials.
C1_SharesSumToTotal ==
  (Launched /\ totalSims >= 0 /\ numWorkers >= 1) =>
    /\ DOMAIN workers = 0..(numWorkers - 1)
    /\ \A w \in DOMAIN workers : workers[w].sims \in Nat
    /\ SimsHandedOut(numWorkers) = totalSims

\* a run whose trials do not divide evenly has been distributed
C1_Witness ==
  /\ Launched
  /\ numWorkers = 3
  /\ totalSims = 2
  /\ workers[0].sims = 2

\* C10: every worker but the first gets floor(totalTrials / workerCount) trials,
\* the first gets that plus totalTrials mod workerCount.
C10_RemainderToFirst ==
  (totalSims >= 0 /\ numWorkers >= 1 /\ mainPc # "start") =>
    \A w \in DOMAIN workers :
      workers[w].sims = (totalSims \div numWorkers)
                        + (IF w = 0 THEN totalSims % numWorkers ELSE 0)

\* two workers, one trial: the first worker holds the remainder, the second none
C10_Witness ==
  /\ Launched
  /\ numWorkers = 2
  /\ totalSims % numWorkers = 1
  /\ workers[0].sims = workers[1].sims + 1

\* number of messages of worker w the main thread has handled
RECURSIVE HandledFrom(_, _)
HandledFrom(w, n) ==
  IF n = 0 THEN 0
  ELSE (IF merged[n].from = w THEN 1 ELSE 0) + HandledFrom(w, n - 1)

\* number of messages worker w has posted
PostedBy(w) == Len(channel[w]) + HandledFrom(w, Len(merged))

\* nothing is left to run: the script is over, every worker has exited and
\* no message is pending (no action of Next is enabled)
Quiescent ==
  /\ Launched
  /\ \A w \in DOMAIN workers : workers[w].pc = "exited" /\ channel[w] = <<>>

\* C2: each launched worker posts exactly one partial result, the handler
\* takes each exactly once, the counter reaches workerCount with the last of
\* them and the final report is printed exactly once.
C2_ExactlyOnce ==
  numWorkers >= 1 =>
    /\ \A w \in DOMAIN workers :
         /\ PostedBy(w) = (IF workers[w].pc = "exited" THEN 1 ELSE 0)
         /\ HandledFrom(w, Len(merged)) <= 1
    /\ finished = Len(merged)
    /\ finished <= numWorkers
    /\ Len(reports) = (IF Launched /\ finished = numWorkers THEN 1 ELSE 0)
    /\ (mainPc = "done") = (Len(reports) = 1)
    /\ Quiescent =>
         /\ Len(reports) = 1
         /\ finished = numWorkers
         /\ \A w \in 0..(numWorkers - 1) : HandledFrom(w, Len(merged)) = 1

\* a run of three workers is over: nothing is left to do and the report is out
C2_Witness ==
  /\ numWorkers = 3
  /\ Quiescent
  /\ Len(reports) = 1
  /\ finished = 3

\* sum of the subtotals of workers 0 .. n - 1, in index order
RECURSIVE SubtotalsOf(_)
SubtotalsOf(n) ==
  IF n = 0 THEN FZero ELSE FAdd(SubtotalsOf(n - 1), workers[n - 1].winnings)

\* sum of the first n messages handled, in the order they were handled
RECURSIVE MergedSum(_)
MergedSum(n) ==
  IF n = 0 THEN FZero ELSE FAdd(MergedSum(n - 1), merged[n].sub)

\* C3: whatever the order of the messages, the grand total at Done is the sum
\* of the subtotals of all the workers: each worker's subtotal was merged
\* once, the total is their sum in the order of delivery, and that is the sum
\* in the order of launch.
C3_GrandTotalIsSum ==
  (mainPc = "done" /\ numWorkers >= 1) =>
    /\ \A w \in 0..(numWorkers - 1) :
         /\ HandledFrom(w, Len(merged)) = 1
         /\ \A n \in 1..Len(merged) :
              merged[n].from = w => merged[n].sub = workers[w].winnings
    /\ grandTotal = MergedSum(Len(merged))
    /\ grandTotal = SubtotalsOf(numWorkers)

\* two different non-zero subtotals merged in an order other than the
\* launch order
C3_Witness ==
  /\ mainPc = "done"
  /\ numWorkers = 2
  /\ Len(merged) = 2
  /\ merged[1].from = 1
  /\ ~IsZero(merged[1].sub)
  /\ ~IsZero(merged[2].sub)
  /\ merged[1].sub # merged[2].sub

\* C4: no final report while a launched worker's subtotal is not merged.
C4_ReportOnlyWhenAllMerged ==
  (Len(reports) > 0 \/ mainPc = "done") =>
    /\ DOMAIN workers = 0..(numWorkers - 1)
    /\ \A w \in DOMAIN workers :
         /\ workers[w].pc = "exited"
         /\ channel[w] = <<>>
         /\ \E k \in 1..Len(merged) : merged[k].from = w

\* the report of a run of three workers, the last subtotal merged being worker 0's
C4_Witness ==
  /\ Len(reports) = 1
  /\ numWorkers = 3
  /\ merged[3].from = 0

\* a worker inside or past simulate
InSimulate(w) == workers[w].pc # "init"

\* C5: for maxPresses >= 1 every trial simulate has finished added exactly
\* one draw to the sum, and no trial goes beyond press maxPresses.
C5_OneAcceptPerTrial ==
  \A w \in DOMAIN workers :
    (InSimulate(w) /\ workers[w].maxPresses >= 1) =>
      /\ workers[w].accepts = workers[w].s
      /\ workers[w].press \in 1..workers[w].maxPresses
      /\ workers[w].last.press <= workers[w].maxPresses
      /\ workers[w].s <= workers[w].sims

\* two trials are over, the second ended by the last of several presses
C5_Witness ==
  \E w \in DOMAIN workers :
    /\ workers[w].maxPresses >= 2
    /\ workers[w].s = 2
    /\ workers[w].accepts = 2
    /\ workers[w].last.stop
    /\ workers[w].last.press = workers[w].maxPresses

\* the recurrence as the contract writes it: f(0) = 0, f(1) = 0.5,
\* f(j) = 0.5 * (1 + f(j - 1)^2)
RECURSIVE fContract(_)
fContract(j) ==
  IF j = 0 THEN FZero
  ELSE IF j = 1 THEN Half
  ELSE CHOOSE r \in {FMul(Half, FAdd(Num(1, 0), Square(prev))) :
                        prev \in {fContract(j - 1)}} : TRUE

\* f(k - 1) * prize for k presses remaining, tabulated once
ContractEntries ==
  {<<k, p, FMul(fContract(k - 1), p)>> :
     k \in 1..Max(MaxPressesArg, MAX_PRESSES), p \in PrizeValues}
EntryFor(k, prize) ==
  (CHOOSE e \in ContractEntries : e[1] = k /\ e[2] = prize)[3]

\* C6: at press p of a trial the draw is accepted iff it is >= the entry for
\* k = maxPresses - p + 1 presses remaining or p = maxPresses; an accepted
\* draw is added to the sum and ends the trial, any other draw is discarded
\* and the trial goes on with press p + 1.
C6_StopRule ==
  [][\A w \in DOMAIN workers :
       (/\ workers[w].pc = "sim"
        /\ workers'[w].pc = "sim"
        /\ workers'[w] # workers[w]
        /\ workers[w].maxPresses >= 1) =>
         LET me == workers[w]
             nx == workers'[w]
             p == me.press
             k == me.maxPresses - p + 1
             d == nx.last.draw
         IN /\ p \in 1..me.maxPresses
            /\ nx.last.press = p
            /\ nx.last.stop = (FGe(d, EntryFor(k, me.prize)) \/ p = me.maxPresses)
            /\ IF nx.last.stop
               THEN /\ nx.winnings = FAdd(me.winnings, d)
                    /\ nx.s = me.s + 1
                    /\ nx.press = 1
               ELSE /\ nx.winnings = me.winnings
                    /\ nx.s = me.s
                    /\ nx.press = p + 1]_vars

\* a draw was accepted on its merits at a press that is neither the first nor
\* the last, after the draws before it were discarded
C6_Witness ==
  \E w \in DOMAIN workers :
    /\ workers[w].last.stop
    /\ workers[w].last.press \in 2..(workers[w].maxPresses - 1)
    /\ ~IsZero(workers[w].winnings)

\* C7: for maxPresses >= 1 the table has maxPresses entries, ordered from
\* k = maxPresses down to k = 1, the entry for k being f(k - 1) * prize with
\* f(0) = 0, f(1) = 0.5, f(j) = 0.5 * (1 + f(j - 1)^2).
C7_TableContents ==
  \A w \in DOMAIN workers :
    (InSimulate(w) /\ workers[w].maxPresses >= 1) =>
      /\ Len(workers[w].th) = workers[w].maxPresses
      /\ \A n \in 1..workers[w].maxPresses :
           workers[w].th[n] = EntryFor(workers[w].maxPresses - n + 1, workers[w].prize)

\* the table of the program's own arguments has been computed: ten entries,
\* the first between 84982 and 84983
C7_Witness ==
  \E w \in DOMAIN workers :
    /\ InSimulate(w)
    /\ workers[w].maxPresses = MAX_PRESSES
    /\ workers[w].prize = TOP_PRIZE
    /\ Len(workers[w].th) = MAX_PRESSES
    /\ FGe(workers[w].th[1], Num(84982, 0))
    /\ FLt(workers[w].th[1], Num(84983, 0))

\* C8: for maxPresses >= 1 the last entry of the table is 0.
C8_LastEntryZero ==
  \A w \in DOMAIN workers :
    (InSimulate(w) /\ workers[w].maxPresses >= 1) =>
      /\ Len(workers[w].th) >= 1
      /\ workers[w].th[Len(workers[w].th)] = FZero

\* a table of several entries whose first entry is not 0
C8_Witness ==
  \E w \in DOMAIN workers :
    /\ InSimulate(w)
    /\ workers[w].maxPresses >= 2
    /\ Len(workers[w].th) >= 2
    /\ ~IsZero(workers[w].th[1])
    /\ IsZero(workers[w].th[Len(workers[w].th)])

\* the smallest normal number, 2^-1022
MinNormal == Num(1, MinExp + MantBits - 1)

\* the table never goes up from one entry to the next
NonIncreasing(tab) == \A n \in 1..(Len(tab) - 1) : FGe(tab[n], tab[n + 1])

\* C9 as stated: for maxPresses >= 1 and prize > 0 the table is monotonically
\* non-increasing and every entry is strictly below prize.
C9_StrictlyBelowPrize ==
  \A w \in DOMAIN workers :
    (InSimulate(w) /\ workers[w].maxPresses >= 1 /\ ~IsZero(workers[w].prize)) =>
      /\ NonIncreasing(workers[w].th)
      /\ \A n \in 1..Len(workers[w].th) : FLt(workers[w].th[n], workers[w].prize)

\* C9 amended: for maxPresses >= 1 and prize > 0 the table is monotonically
\* non-increasing, no entry is above prize, and every entry is strictly below
\* prize when prize is a normal number (>= 2^-1022).
C9_BelowPrize ==
  \A w \in DOMAIN workers :
    (InSimulate(w) /\ workers[w].maxPresses >= 1 /\ ~IsZero(workers[w].prize)) =>
      /\ Len(workers[w].th) >= 1
      /\ NonIncreasing(workers[w].th)
      /\ \A n \in 1..Len(workers[w].th) :
           /\ FGe(workers[w].prize, workers[w].th[n])
           /\ FGe(workers[w].prize, MinNormal) => FLt(workers[w].th[n], workers[w].prize)

\* the table of the largest maxPresses for the smallest normal prize: its
\* first entry is positive and below the prize
C9_Witness ==
  \E w \in DOMAIN workers :
    /\ InSimulate(w)
    /\ workers[w].prize = MinNormal
    /\ workers[w].maxPresses = MaxPressesArg
    /\ ~IsZero(workers[w].th[1])
    /\ FLt(workers[w].th[1], workers[w].prize)

\* C11: when workerCount > totalTrials every worker is launched all the same;
\* a worker handed zero trials runs, posts the subtotal 0 and is counted, so
\* that when nothing is left to run the counter is workerCount and the run
\* is Done.
C11_IdleWorkersReport ==
  (Launched /\ numWorkers > totalSims) =>
    /\ DOMAIN workers = 0..(numWorkers - 1)
    /\ \A w \in DOMAIN workers :
         workers[w].sims = 0 =>
           /\ workers[w].pc = "exited" => PostedBy(w) = 1
           /\ \A n \in 1..Len(channel[w]) : channel[w][n] = FZero
           /\ \A n \in 1..Len(merged) : merged[n].from = w => merged[n].sub = FZero
    /\ Quiescent => (finished = numWorkers /\ mainPc = "done" /\ Len(reports) = 1)

\* three workers share one trial: the two idle workers reported 0, the run is
\* Done with a total that is the first worker's payout
C11_Witness ==
  /\ mainPc = "done"
  /\ numWorkers = 3
  /\ totalSims = 1
  /\ workers[1].sims = 0
  /\ workers[2].sims = 0
  /\ HandledFrom(1, Len(merged)) = 1
  /\ HandledFrom(2, Len(merged)) = 1
  /\ finished = 3
  /\ ~IsZero(grandTotal)

\* C12: a run with totalTrials = 0 raises ZeroTrials: it never prints a report
\* whose mean is grandTotal / totalTrials, be it a number or NaN.
C12_ZeroTrialsRaised ==
  totalSims = 0 =>
    \A n \in 1..Len(reports) : reports[n].mean.kind \notin {"number", "NaN", "Infinity"}

\* C13: a run with invalid parameters (totalTrials < 0 or workerCount < 1;
\* maxPresses and prize are the program's constants) is rejected before
\* anything is dispatched: no worker is launched, nothing is merged, nothing
\* is reported.
C13_InvalidRejected ==
  (totalSims < 0 \/ numWorkers < 1) =>
    /\ workers = <<>>
    /\ merged = <<>>
    /\ reports = <<>>

\* nothing is left to run in a run whose workers may have ended abnormally
RunOver ==
  /\ mainPc \in {"running", "done", "failed"}
  /\ \A w \in DOMAIN workers :
       /\ workers[w].pc \in {"exited", "crashed"}
       /\ mainPc # "failed" => channel[w] = <<>>

\* C14: if a worker ends abnormally without delivering its subtotal, no mean
\* is printed from the other workers' subtotals and the run does not end
\* (or wait) without the failure being surfaced.
C14_FailureSurfaced ==
  (\E w \in DOMAIN workers : workers[w].pc = "crashed") =>
    /\ reports = <<>>
    /\ RunOver => mainPc = "failed"

\* C15: called with maxPresses < 1 the solver rejects the call or clamps
\* maxPresses to 1: a worker never gets a table of length 0 from it.
C15_NoEmptyTable ==
  \A w \in DOMAIN workers :
    (InSimulate(w) /\ workers[w].maxPresses < 1) => Len(workers[w].th) >= 1

\* the phases of a run in the order the main thread goes through them: Idle,
\* Distributing, Running, Done (Aggregating is the last handler call)
PhaseRank(pc) ==
  CASE pc = "start" -> 0
    [] pc = "launching" -> 1
    [] pc = "running" -> 2
    [] pc = "done" -> 3
    [] OTHER -> -1

\* C16: the run only moves forward through its phases, and once it is Done
\* no later step changes the grand total, the counter or the report.
C16_SingleShot ==
  [][/\ PhaseRank(mainPc') >= PhaseRank(mainPc)
     /\ mainPc = "done" =>
          /\ mainPc' = "done"
          /\ grandTotal' = grandTotal
          /\ finished' = finished
          /\ reports' = reports]_vars

\* a run of three workers is Done with a non-zero total and a numeric mean
C16_Witness ==
  /\ mainPc = "done"
  /\ numWorkers = 3
  /\ finished = 3
  /\ ~IsZero(grandTotal)
  /\ Len(reports) = 1
  /\ reports[1].mean.kind = "number"

\* C17: a step of a worker changes nothing of the main thread (grand total,
\* counter, table, report) and nothing of any other worker, and leaves its
\* own table alone once computed; the grand total and the counter change
\* only when the main thread handles a message, by that message.
C17_WorkerFrame ==
  [][/\ \A w \in DOMAIN workers :
          (w \in DOMAIN workers' /\ workers'[w] # workers[w]) =>
            /\ grandTotal' = grandTotal
            /\ finished' = finished
            /\ th' = th
            /\ reports' = reports
            /\ merged' = merged
            /\ mainPc' = mainPc
            /\ \A v \in DOMAIN workers \ {w} :
                 workers'[v] = workers[v] /\ channel'[v] = channel[v]
            /\ workers[w].pc # "init" => workers'[w].th = workers[w].th
     /\ (grandTotal' # grandTotal \/ finished' # finished) =>
          /\ workers' = workers
          /\ \E w \in DOMAIN channel :
               /\ channel[w] # <<>>
               /\ channel' = [channel EXCEPT ![w] = Tail(channel[w])]
               /\ grandTotal' = FAdd(grandTotal, Head(channel[w]))
               /\ finished' = finished + 1]_vars

\* one worker's subtotal is merged while another worker has played its trial
\* and not yet posted
C17_Witness ==
  /\ numWorkers = 2
  /\ finished = 1
  /\ ~IsZero(grandTotal)
  /\ workers[1].pc = "sim"
  /\ workers[1].s = 1
  /\ ~IsZero(workers[1].winnings)

\* exact comparison of the number x >= 0 with c / 100: -1, 0 or 1
CmpCents(x, c) ==
  IF c < 0 THEN 1
  ELSE IF x.e >= 0
  THEN BigCmp(ShiftLeft(BigMulSmall(x.m, 100), x.e), BigFromInt(c))
  ELSE BigCmp(BigMulSmall(x.m, 100), ShiftLeft(BigFromInt(c), -x.e))

\* the thresholds of the example output, in cents
ExampleCents ==
  <<8498214, 8364465, 8203006, 8003757, 7750815, 7417297, 6953125, 6250000, 5000000, 0>>

\* C18: thresholds(10, 100000) is, entry by entry, within 0.5 of 84982.14,
\* 83644.65, 82030.06, 80037.57, 77508.15, 74172.97, 69531.25, 62500.00,
\* 50000.00, 0.00.
C18_ExampleValues ==
  \A w \in DOMAIN workers :
    (InSimulate(w) /\ workers[w].maxPresses = 10 /\ workers[w].prize = Num(100000, 0)) =>
      /\ Len(workers[w].th) = Len(ExampleCents)
      /\ \A n \in 1..Len(ExampleCents) :
           /\ CmpCents(workers[w].th[n], ExampleCents[n] - 50) >= 0
           /\ CmpCents(workers[w].th[n], ExampleCents[n] + 50) <= 0

\* the table of thresholds(10, 100000) is in a worker's hands: its fourth
\* entry lies between 80037 and 80038
C18_Witness ==
  \E w \in DOMAIN workers :
    /\ InSimulate(w)
    /\ workers[w].maxPresses = 10
    /\ workers[w].prize = Num(100000, 0)
    /\ Len(workers[w].th) = 10
    /\ CmpCents(workers[w].th[4], 8003700) > 0
    /\ CmpCents(workers[w].th[4], 8003800) < 0

\* C20: the table a worker computes from its workerData and simulates
\* against equals, entry for entry, the table the main thread computed with
\* thresholds() and prints in the report.
C20_SameTable ==
  /\ \A w \in DOMAIN workers :
       InSimulate(w) =>
         /\ Len(workers[w].th) = Len(th)
         /\ \A n \in 1..Len(th) : workers[w].th[n] = th[n]
  /\ \A n \in 1..Len(reports) :
       \A w \in DOMAIN workers : reports[n].thresholds = workers[w].th

\* the report of a run of two workers is out: it shows ten entries, the
\* second worker's table among them
C20_Witness ==
  /\ Len(reports) = 1
  /\ numWorkers = 2
  /\ Len(reports[1].thresholds) = MAX_PRESSES
  /\ workers[1].th = reports[1].thresholds
  /\ ~IsZero(workers[1].th[1])

\* C19: for totalTrials >= 0 and workerCount >= 1, under fair scheduling of
\* the workers and delivery of their messages the run eventually is Done,
\* and while it waits every worker it waits for has been launched.
C19_EventuallyDone ==
  /\ [](mainPc = "running" => DOMAIN workers = 0..(numWorkers - 1))
  /\ <>(mainPc = "done")

\* a run of three workers waits: one message is handled, one is pending and
\* one worker is still playing
C19_Witness ==
  /\ mainPc = "running"
  /\ numWorkers = 3
  /\ finished = 1
  /\ \E w \in DOMAIN workers : workers[w].pc = "sim"
  /\ \E w \in DOMAIN workers : channel[w] # <<>>

\* number of trials assigned to the workers of the first n messages handled
RECURSIVE MergedSims(_)
MergedSims(n) ==
  IF n = 0 THEN 0 ELSE workers[merged[n].from].sims + MergedSims(n - 1)

\* C21: in a run with valid parameters the counter stays within
\* 0..workerCount, the grand total is at least 0 and at most prize times the
\* number of trials of the workers merged so far, and a mean printed for
\* totalTrials > 0 lies in [0, prize].
C21_CounterAndTotalBounds ==
  /\ finished \in 0..numWorkers
  /\ FGe(grandTotal, FZero)
  /\ FGe(FMul(TOP_PRIZE, Num(MergedSims(Len(merged)), 0)), grandTotal)
  /\ \A n \in 1..Len(reports) :
       totalSims > 0 =>
         /\ reports[n].mean.kind = "number"
         /\ ~reports[n].mean.neg
         /\ FGe(reports[n].mean.abs, FZero)
         /\ FGe(TOP_PRIZE, reports[n].mean.abs)

\* two workers played one trial each, the total is above one prize and the
\* mean printed is positive and below the prize
C21_Witness ==
  /\ mainPc = "done"
  /\ totalSims = 2
  /\ numWorkers = 2
  /\ finished = 2
  /\ FGe(grandTotal, TOP_PRIZE)
  /\ Len(reports) = 1
  /\ ~IsZero(reports[1].mean.abs)
  /\ FLt(reports[1].mean.abs, TOP_PRIZE)

\* the links whose task stands at the given status
LinksWith(status) == {k \in 1..parser.links : parser.tasks[k].status = status}

\* C22: processLinks settles every link exactly once, as fulfilled or as
\* rejected; a link that fails does not stop the others (while the call
\* waits, some task can still run or start, or all have settled and no task
\* has made the call throw); the bar is incremented exactly once per settled
\* link; nothing is inserted before every link has settled; at the end
\* ok + fail = links.length, ok and fail being the numbers of fulfilled and of
\* rejected links and the bar standing at links.length.
C22_EveryLinkSettledOnce ==
  parser.pc \notin {"none", "start"} =>
    /\ parser.pc \in {"awaiting", "done"}
    /\ \A k \in 1..parser.links :
         /\ parser.tasks[k].status \in {"queued", "running", "fulfilled", "rejected"}
         /\ parser.settles[k] = IF k \in SettledTasks THEN 1 ELSE 0
         /\ parser.increments[k] = parser.settles[k]
    /\ parser.bar = Cardinality(SettledTasks)
    /\ Cardinality(ActiveTasks) <= ConcurrencyLimit
    /\ parser.inserted # <<>> => SettledTasks = 1..parser.links
    /\ parser.pc = "awaiting" =>
         \/ ActiveTasks # {}
         \/ LinksWith("queued") # {}
         \/ SettledTasks = 1..parser.links
    /\ parser.pc = "done" =>
         /\ SettledTasks = 1..parser.links
         /\ parser.bar = parser.links
         /\ parser.ok = Cardinality(LinksWith("fulfilled"))
         /\ parser.fail = Cardinality(LinksWith("rejected"))
         /\ parser.ok + parser.fail = parser.links
         /\ Len(parser.inserted) = parser.ok

C22_Witness ==
  /\ parser.pc = "done"
  /\ parser.links > ConcurrencyLimit
  /\ parser.tasks[1].status = "rejected"
  /\ parser.tasks[1].reason = "fetch failed"
  /\ parser.tasks[2].status = "fulfilled"
  /\ parser.tasks[parser.links].status = "fulfilled"
  /\ parser.ok = parser.links - 1
  /\ parser.fail = 1
  /\ parser.inserted = <<2, 3, 4, 5, 6>>
  /\ parser.bar = parser.links

====
